---- MODULE Spec2Model ----
(***************************************************************************)
(* A model of chest (chest/core.py): a dictionary that spills to disk.     *)
(*                                                                         *)
(* A store (Chest) is a record of its fields; the file system is a set of  *)
(* directories holding names (hard links) of inodes.  Every method of      *)
(* Chest is an operator from a world (stores, directories, inodes) to a    *)
(* result [w, out, ret]: the world after the call, the exception that left *)
(* it ("ok" when it returned) and the value returned.                      *)
(***************************************************************************)
EXTENDS Integers, Sequences, FiniteSets, TLC

VARIABLES st, fs, ino, last, steps, thr, written, touched

vars == <<st, fs, ino, last, steps, thr, written, touched>>

(***************************************************************************)
(* Bounds of the exploration.                                              *)
(***************************************************************************)
MaxSteps == 5

(***************************************************************************)
(* Strings are sequences of characters, so that the regular expression of  *)
(* key_to_filename and the '_' prefix of directory names are computed.     *)
(***************************************************************************)
Letters == {"a", "b", "e", "n", "o", "t", "w", "x", "y"}

Digits == {"0", "1", "2"}

\* re.match('^[_a-zA-Z]\w*$', s)
IsIdentifier(s) ==
    /\ Len(s) > 0
    /\ s[1] \in Letters \cup {"_"}
    /\ \A i \in 1..Len(s) : s[i] \in Letters \cup Digits \cup {"_"}

\* str(key) of a scalar key: the type of the key is not part of the text.
Str(e) == e.s

\* hashlib.md5(text).hexdigest(): a function of the text alone; distinct
\* texts get distinct digests, and a digest ("#" marks it) is no identifier
\* of the universe.
Md5(text) == <<"#">> \o text

\* key_to_filename of a key that is no tuple (core.py lines 22-23, 28-29).
ScalarFilename(e) ==
    IF e.ty = "str" /\ IsIdentifier(e.s) THEN e.s ELSE Md5(Str(e))

\* key_to_filename: a relative path, as the sequence of its segments.
key_to_filename(key) ==
    IF ~key.tup
    THEN <<ScalarFilename(key.el[1])>>
    ELSE [i \in 1..Len(key.el) |->
            IF i < Len(key.el)
            THEN <<"_">> \o ScalarFilename(key.el[i])
            ELSE ScalarFilename(key.el[i])]

(***************************************************************************)
(* Keys.                                                                   *)
(***************************************************************************)
IntKey(s) == [tup |-> FALSE, el |-> <<[ty |-> "int", s |-> s]>>]

StrKey(s) == [tup |-> FALSE, el |-> <<[ty |-> "str", s |-> s]>>]

TupleKey(a, b) ==
    [tup |-> TRUE, el |-> <<[ty |-> "str", s |-> a], [ty |-> "str", s |-> b]>>]

K1 == IntKey(<<"1">>)

KS1 == StrKey(<<"1">>)

KX == StrKey(<<"x">>)

KY == StrKey(<<"y">>)

KUOne == StrKey(<<"_", "o", "n", "e">>)

KOneTwo == TupleKey(<<"o", "n", "e">>, <<"t", "w", "o">>)

AllKeys == {K1, KS1, KX, KY, KUOne, KOneTwo}

AllPaths == {key_to_filename(k) : k \in AllKeys}

(***************************************************************************)
(* Values, the codec (pickle) and the size estimator.                      *)
(***************************************************************************)
Values == {"v1", "v2", "u"}

\* dump raises TypeError on a value like test_core.py's A (its __getstate__
\* raises TypeError).
Serializable(v) == v # "u"

\* nbytes(o)
nbytes(v) == CASE v = "v1" -> 1 [] v = "v2" -> 2 [] v = "u" -> 1

\* dump(value, f) writes the pickle of the value; load(f) reads it back.
Dump(v) == [pickle |-> v]

Load(c) == c.pickle

\* dump(list(self._keys.items()), f) and dict(self.load(f)).
Items(keys) == {<<k, keys[k]>> : k \in DOMAIN keys}

DictOf(items) ==
    [k \in {it[1] : it \in items} |->
        (CHOOSE it \in items : it[1] = k)[2]]

(***************************************************************************)
(* The file system.  fs[d] is the directory tree rooted at d: whether the  *)
(* root exists, the directories below it, the file names below it (each a  *)
(* link to an inode) and the content of the '.keys' file.  ino[n] is the   *)
(* content of inode n.  fs[d].fault is the I/O error the device of d       *)
(* answers a write with: none, "open" (open(fn, 'w') raises OSError) or    *)
(* "write" (the file is created and the write of its content raises        *)
(* OSError).                                                               *)
(***************************************************************************)
Dirs == {"dA", "dB"}

Handles == {"A", "B"}

Free == [free |-> TRUE]

NoFile == [nofile |-> TRUE]

InodeIds == 1..(Cardinality(Dirs) * Cardinality(AllPaths))

EmptyFn == [x \in {} |-> 0]

Faults == {"none", "open", "write"}

EmptyDir ==
    [exists |-> FALSE, dirs |-> {}, files |-> EmptyFn, keyfile |-> NoFile,
     fault |-> "none"]

IsFile(w, d, p) == p \in DOMAIN w.fs[d].files

IsDir(w, d, p) == IF p = <<>> THEN w.fs[d].exists ELSE p \in w.fs[d].dirs

\* os.path.exists
PathExists(w, d, p) == IsFile(w, d, p) \/ IsDir(w, d, p)

\* os.path.dirname
Dirname(p) == SubSeq(p, 1, Len(p) - 1)

Prefixes(p) == {SubSeq(p, 1, i) : i \in 1..Len(p)}

\* os.makedirs(dir): fails when a component of the path is a file.
MakedirsFails(w, d, p) == \E q \in Prefixes(p) : IsFile(w, d, q)

Makedirs(w, d, p) ==
    [w EXCEPT !.fs[d].exists = TRUE,
              !.fs[d].dirs = @ \cup Prefixes(p)]

\* open(fn, 'w') of a name that does not exist needs its directory.
CanCreate(w, d, p) == IsDir(w, d, Dirname(p)) /\ ~PathExists(w, d, p)

FreeInode(w) == CHOOSE n \in InodeIds :
    /\ w.ino[n] = Free
    /\ \A m \in InodeIds : w.ino[m] = Free => n <= m

\* open(fn, 'w') and a complete write: a new inode under the name p.
CreateFile(w, d, p, content) ==
    LET n == FreeInode(w) IN
    [w EXCEPT !.ino[n] = content,
              !.fs[d].files = [q \in DOMAIN @ \cup {p} |->
                                 IF q = p THEN n ELSE @[q]]]

Linked(w, n) == \E d \in Dirs : \E q \in DOMAIN w.fs[d].files : w.fs[d].files[q] = n

\* A mutant of Unlink: the content of the file is destroyed with the name,
\* whatever other names the inode has.
Unlink_Truncates(w, d, p) ==
    LET n == w.fs[d].files[p]
        w1 == [w EXCEPT !.fs[d].files = [q \in DOMAIN @ \ {p} |-> @[q]]]
    IN  IF Linked(w1, n) THEN [w1 EXCEPT !.ino[n] = [empty |-> TRUE]]
        ELSE [w1 EXCEPT !.ino[n] = Free]

\* os.remove(fn) of a file: the name goes, and the inode with its last name.
Unlink(w, d, p) ==
    LET n == w.fs[d].files[p]
        w1 == [w EXCEPT !.fs[d].files = [q \in DOMAIN @ \ {p} |-> @[q]]]
    IN  IF Linked(w1, n) THEN w1 ELSE [w1 EXCEPT !.ino[n] = Free]

\* os.link(old, new): a second name for the inode of old.
Link(w, d1, p1, d2, p2) ==
    [w EXCEPT !.fs[d2].files = [q \in DOMAIN @ \cup {p2} |->
                                  IF q = p2 THEN w.fs[d1].files[p1] ELSE @[q]]]

ReadFile(w, d, p) == w.ino[w.fs[d].files[p]]

\* shutil.rmtree(path)
Rmtree(w, d) ==
    LET w1 == [w EXCEPT !.fs[d] = [EmptyDir EXCEPT !.fault = w.fs[d].fault]]
    IN  [w1 EXCEPT !.ino = [n \in InodeIds |->
                              IF Linked(w1, n) THEN w.ino[n] ELSE Free]]

(***************************************************************************)
(* A store: the fields of a Chest object.                                  *)
(*   inmem    the in-memory table, key -> value                            *)
(*   keys     _keys, key -> relative path                                  *)
(*   explicit _explicitly_given_path                                       *)
(*   path     the directory of the store                                   *)
(*   avail    available_memory                                             *)
(*   counter  the LRU clock                                                *)
(*   heap     the heapdict, key -> clock value of its last touch           *)
(***************************************************************************)
Put(f, k, v) == [x \in DOMAIN f \cup {k} |-> IF x = k THEN v ELSE f[x]]

Drop(f, k) == [x \in DOMAIN f \ {k} |-> f[x]]

None == "none"

R(w, out, ret) == [w |-> w, out |-> out, ret |-> ret]

\* Statement sequencing: the value of e is computed, once, and F goes on
\* from it.
Then(e, F(_)) == CHOOSE res \in {F(x) : x \in {e}} : TRUE

\* The index a store reads from the '.keys' file of a directory when it is
\* opened (__init__, lines 101-104): empty when there is no such file.
LoadKeys(w, d) ==
    IF w.fs[d].keyfile = NoFile THEN EmptyFn ELSE DictOf(Load(w.fs[d].keyfile))

\* Chest.__init__(data, path, available_memory)
ChestInit(w, h, d, explicit, avail, data) ==
    LET w1 == IF w.fs[d].exists THEN w ELSE [w EXCEPT !.fs[d].exists = TRUE]
    IN  [w1 EXCEPT !.st[h] =
            [inmem |-> data,
             keys |-> LoadKeys(w1, d),
             explicit |-> explicit,
             path |-> d,
             avail |-> avail,
             counter |-> 0,
             heap |-> EmptyFn]]

\* Chest.key_to_filename(key): the recorded path of a key of _keys.
KeyFilename(w, h, key) ==
    IF key \in DOMAIN w.st[h].keys THEN w.st[h].keys[key] ELSE key_to_filename(key)

EmptyFile == [empty |-> TRUE]

\* The body of move_to_disk's "if not os.path.exists(fn)" (lines 131-139).
WriteValue(w, h, key) ==
    LET d == w.st[h].path
        fn == KeyFilename(w, h, key)
        dir == Dirname(fn)
        mk == ~PathExists(w, d, dir)
        w1 == IF mk /\ ~MakedirsFails(w, d, dir) THEN Makedirs(w, d, dir) ELSE w
    IN  IF mk /\ MakedirsFails(w, d, dir) THEN R(w, "OSError", None)
        ELSE IF ~CanCreate(w1, d, fn) THEN R(w1, "OSError", None)
        ELSE IF w1.fs[d].fault = "open" THEN R(w1, "OSError", None)
        ELSE IF key \notin DOMAIN w1.st[h].inmem
             THEN R(CreateFile(w1, d, fn, EmptyFile), "KeyError", None)
        ELSE IF ~Serializable(w1.st[h].inmem[key])
             THEN R(w1, "TypeError", None)       \* the file is removed again
        ELSE IF w1.fs[d].fault = "write"         \* not a TypeError: the file stays
             THEN R(CreateFile(w1, d, fn, EmptyFile), "OSError", None)
        ELSE R(CreateFile(w1, d, fn, Dump(w1.st[h].inmem[key])), "ok", None)

\* Chest.move_to_disk(key)
move_to_disk(w, h, key) ==
    LET d == w.st[h].path
        fn == KeyFilename(w, h, key)
    IN  Then(IF ~PathExists(w, d, fn) THEN WriteValue(w, h, key) ELSE R(w, "ok", None),
             LAMBDA r :
                 IF r.out # "ok" THEN r
                 ELSE IF key \notin DOMAIN r.w.st[h].inmem THEN R(r.w, "KeyError", None)
                 ELSE R([r.w EXCEPT !.st[h].inmem = Drop(@, key)], "ok", None))

\* Chest.get_from_disk(key)
get_from_disk(w, h, key) ==
    LET d == w.st[h].path
        fn == KeyFilename(w, h, key)
    IN  IF key \in DOMAIN w.st[h].inmem THEN R(w, "ok", None)
        ELSE IF ~IsFile(w, d, fn) THEN R(w, "OSError", None)
        ELSE IF ReadFile(w, d, fn) = EmptyFile THEN R(w, "EOFError", None)
        ELSE R([w EXCEPT !.st[h].inmem = Put(@, key, Load(ReadFile(w, d, fn)))],
               "ok", None)

\* Chest._update_lru(key)
update_lru(w, h, key) ==
    [w EXCEPT !.st[h].counter = @ + 1,
              !.st[h].heap = Put(@, key, w.st[h].counter + 1)]

\* Chest.memory_usage
RECURSIVE SumSizes(_, _)
SumSizes(f, ks) ==
    IF ks = {} THEN 0
    ELSE LET k == CHOOSE x \in ks : TRUE IN nbytes(f[k]) + SumSizes(f, ks \ {k})

memory_usage(w, h) == SumSizes(w.st[h].inmem, DOMAIN w.st[h].inmem)

\* heapdict.popitem(): the key of the smallest clock value.
HeapMin(heap) == CHOOSE k \in DOMAIN heap : \A j \in DOMAIN heap : heap[k] <= heap[j]

\* A mutant of ShrinkLoop: "mem -= nbytes(data)" placed after the try block,
\* so that a value that could not be written is counted as freed.
RECURSIVE ShrinkLoop_CountsPinned(_, _, _)
ShrinkLoop_CountsPinned(w, h, mem) ==
    IF ~(mem > w.st[h].avail) THEN R(w, "ok", None)
    ELSE IF DOMAIN w.st[h].heap = {} THEN R(w, "IndexError", None)
    ELSE LET key == HeapMin(w.st[h].heap)
             w1 == [w EXCEPT !.st[h].heap = Drop(@, key)]
         IN  IF key \notin DOMAIN w1.st[h].inmem THEN R(w1, "KeyError", None)
             ELSE LET data == w1.st[h].inmem[key]
                  IN  Then(move_to_disk(w1, h, key),
                           LAMBDA r :
                               IF r.out \in {"ok", "TypeError"}
                               THEN ShrinkLoop_CountsPinned(r.w, h, mem - nbytes(data))
                               ELSE r)

\* The while loop of Chest.shrink (lines 237-244).
RECURSIVE ShrinkLoop(_, _, _)
ShrinkLoop(w, h, mem) ==
    IF ~(mem > w.st[h].avail) THEN R(w, "ok", None)
    ELSE IF DOMAIN w.st[h].heap = {} THEN R(w, "IndexError", None)
    ELSE LET key == HeapMin(w.st[h].heap)
             w1 == [w EXCEPT !.st[h].heap = Drop(@, key)]
         IN  IF key \notin DOMAIN w1.st[h].inmem THEN R(w1, "KeyError", None)
             ELSE LET data == w1.st[h].inmem[key]
                  IN  Then(move_to_disk(w1, h, key),
                           LAMBDA r :
                               IF r.out = "ok"
                               THEN ShrinkLoop(r.w, h, mem - nbytes(data))
                               ELSE IF r.out = "TypeError" THEN ShrinkLoop(r.w, h, mem)
                               ELSE r)

\* Chest.shrink()
shrink(w, h) ==
    LET mem == memory_usage(w, h)
    IN  IF mem < w.st[h].avail THEN R(w, "ok", None) ELSE ShrinkLoop(w, h, mem)

\* A mutant of delitem: the file of the key is left on disk.
delitem_KeepsFile(w, h, key) ==
    LET w1 == [w EXCEPT !.st[h].inmem = Drop(@, key), !.st[h].heap = Drop(@, key)]
    IN  IF key \notin DOMAIN w1.st[h].keys THEN R(w1, "KeyError", None)
        ELSE R([w1 EXCEPT !.st[h].keys = Drop(@, key)], "ok", None)

\* Chest.__delitem__(key)
delitem(w, h, key) ==
    LET d == w.st[h].path
        w1 == [w EXCEPT !.st[h].inmem = Drop(@, key), !.st[h].heap = Drop(@, key)]
        fn == KeyFilename(w1, h, key)
    IN  IF IsDir(w1, d, fn) THEN R(w1, "OSError", None)
        ELSE LET w2 == IF IsFile(w1, d, fn) THEN Unlink(w1, d, fn) ELSE w1
             IN  IF key \notin DOMAIN w2.st[h].keys THEN R(w2, "KeyError", None)
                 ELSE R([w2 EXCEPT !.st[h].keys = Drop(@, key)], "ok", None)

\* The first locked block of Chest.__getitem__ (lines 156-165).
getitem_lookup(w, h, key) ==
    IF key \in DOMAIN w.st[h].inmem THEN R(w, "ok", w.st[h].inmem[key])
    ELSE IF key \notin DOMAIN w.st[h].keys THEN R(w, "KeyError", None)
    ELSE Then(get_from_disk(w, h, key),
              LAMBDA r : IF r.out # "ok" THEN r
                         ELSE R(update_lru(r.w, h, key), "ok", r.w.st[h].inmem[key]))

\* Chest.__getitem__(key)
getitem(w, h, key) ==
    Then(getitem_lookup(w, h, key),
         LAMBDA r : IF r.out # "ok" THEN r
                    ELSE Then(shrink(r.w, h),
                              LAMBDA s : IF s.out # "ok" THEN s ELSE R(s.w, "ok", r.ret)))

\* The first locked block of Chest.__setitem__ (lines 189-195).
setitem_store(w, h, key, value) ==
    Then(IF key \in DOMAIN w.st[h].keys THEN delitem(w, h, key) ELSE R(w, "ok", None),
         LAMBDA r :
             IF r.out # "ok" THEN r
             ELSE R(update_lru([r.w EXCEPT !.st[h].inmem = Put(@, key, value),
                                           !.st[h].keys = Put(@, key, key_to_filename(key))],
                               h, key),
                    "ok", None))

\* Chest.__setitem__(key, value)
setitem(w, h, key, value) ==
    Then(setitem_store(w, h, key, value),
         LAMBDA r : IF r.out # "ok" THEN r ELSE shrink(r.w, h))

\* Chest.write_keys()
write_keys(w, h) ==
    LET d == w.st[h].path
    IN  IF ~w.fs[d].exists \/ w.fs[d].fault = "open" THEN R(w, "OSError", None)
        ELSE IF w.fs[d].fault = "write"
             THEN R([w EXCEPT !.fs[d].keyfile = EmptyFile], "OSError", None)
        ELSE R([w EXCEPT !.fs[d].keyfile = Dump(Items(w.st[h].keys))], "ok", None)

\* The loop of Chest.flush over list(self.inmem), in the order given.
RECURSIVE FlushLoop(_, _, _)
FlushLoop(w, h, order) ==
    IF order = <<>> THEN R(w, "ok", None)
    ELSE Then(move_to_disk(w, h, Head(order)),
              LAMBDA r : IF r.out # "ok" THEN r ELSE FlushLoop(r.w, h, Tail(order)))

\* Chest.flush(); the iteration order of the dictionary is an input.
flush(w, h, order) ==
    Then(FlushLoop(w, h, order),
         LAMBDA r : IF r.out # "ok" THEN r ELSE write_keys(r.w, h))

\* Chest.drop()
drop(w, h) ==
    LET d == w.st[h].path
    IN  IF ~w.fs[d].exists THEN R(w, "OSError", None) ELSE R(Rmtree(w, d), "ok", None)

\* Chest.__exit__(eType, eValue, eTrace); exc is the exception of the body.
exit(w, h, exc) ==
    LET d == w.st[h].path
    IN  IF ~w.fs[d].exists THEN R(w, "OSError", None)         \* os.listdir
        ELSE LET w1 == IF ~w.st[h].explicit THEN Rmtree(w, d) ELSE w
             IN  R(w1, IF exc # None THEN exc ELSE "ok", None)

\* The loop of Chest.update over other._keys, in the order given
\* (lines 281-292).
RECURSIVE UpdateLoop(_, _, _, _, _)
UpdateLoop(w, self, other, overwrite, order) ==
    IF order = <<>> THEN R(w, "ok", None)
    ELSE LET key == Head(order)
             has == key \in DOMAIN w.st[self].keys
         IN  IF has /\ ~overwrite
             THEN UpdateLoop(w, self, other, overwrite, Tail(order))
             ELSE Then(IF has THEN delitem(w, self, key) ELSE R(w, "ok", None),
                       LAMBDA r :
                 IF r.out # "ok" THEN r
                 ELSE LET d1 == r.w.st[other].path
                          old_fn == KeyFilename(r.w, other, key)
                          w1 == [r.w EXCEPT !.st[self].keys =
                                              Put(@, key, key_to_filename(key))]
                          d2 == w1.st[self].path
                          new_fn == KeyFilename(w1, self, key)
                          dir == Dirname(new_fn)
                          mk == ~PathExists(w1, d2, dir)
                      IN  IF mk /\ MakedirsFails(w1, d2, dir) THEN R(w1, "OSError", None)
                          ELSE Then(IF mk THEN Makedirs(w1, d2, dir) ELSE w1,
                                    LAMBDA w2 :
                              IF ~IsFile(w2, d1, old_fn) \/ ~CanCreate(w2, d2, new_fn)
                              THEN R(w2, "OSError", None)
                              ELSE Then(Link(w2, d1, old_fn, d2, new_fn),
                                        LAMBDA x : UpdateLoop(x, self, other, overwrite,
                                                              Tail(order)))))

\* Chest.update(other, overwrite); the iteration orders of self.inmem,
\* other.inmem and other._keys are inputs.
update(w, self, other, overwrite, o1, o2, o3) ==
    Then(flush(w, self, o1), LAMBDA r1 :
        IF r1.out # "ok" THEN r1
        ELSE Then(flush(r1.w, other,
                        SelectSeq(o2, LAMBDA k : k \in DOMAIN r1.w.st[other].inmem)),
                  LAMBDA r2 :
            IF r2.out # "ok" THEN r2
            ELSE UpdateLoop(r2.w, self, other, overwrite, o3)))

\* The orders in which a dictionary with these keys may be iterated.
Orders(ks) ==
    {o \in [1..Cardinality(ks) -> ks] : \A i, j \in DOMAIN o : i # j => o[i] # o[j]}

(***************************************************************************)
(* The state machine.  st, fs and ino are the world; last records the call *)
(* that led to the state: the method, its arguments, where the key was     *)
(* before the call (pre), the exception that left the call ("ok" when it   *)
(* returned) and the value it returned; steps counts the calls made; thr   *)
(* is the position of every thread in the call it is making; written holds *)
(* the values the threads' sets have written under every key; touched is   *)
(* the number of the last call that got or set every key (SpecLRU).        *)
(***************************************************************************)
World == [st |-> st, fs |-> fs, ino |-> ino]

NoKey == [tup |-> FALSE, el |-> <<>>]

Threads == {"t1", "t2"}

NoPre == [res |-> FALSE, disk |-> FALSE, shared |-> FALSE]

\* A thread that is making no call.  In a call, pc is "shrink" between the
\* two locked blocks, "while" at the loop test of shrink and "evict" after
\* its popitem(); mem and victim are the locals mem and key of shrink.
Idle == [pc |-> "idle", op |-> None, key |-> NoKey, val |-> None,
         ret |-> None, pre |-> NoPre, mem |-> 0, victim |-> NoKey]

\* Where the key is before a call: in memory (res), in a file (disk), in a
\* file that has a second name in another directory (shared).
Pre(h, key) ==
    IF key = NoKey THEN NoPre
    ELSE LET d == st[h].path
             fn == KeyFilename(World, h, key)
         IN  [res |-> key \in DOMAIN st[h].inmem,
              disk |-> IsFile(World, d, fn),
              shared |-> /\ IsFile(World, d, fn)
                         /\ \E e \in Dirs \ {d} : \E q \in DOMAIN fs[e].files :
                                fs[e].files[q] = fs[d].files[fn]]

Call(op, h, key, val, pre, r) ==
    [op |-> op, h |-> h, other |-> h, key |-> key, val |-> val, pre |-> pre,
     out |-> r.out, ret |-> r.ret]

Result(call, r) ==
    /\ steps < MaxSteps
    /\ st' = r.w.st
    /\ fs' = r.w.fs
    /\ ino' = r.w.ino
    /\ last' = call
    /\ steps' = steps + 1

Becomes(op, h, key, val, r) ==
    /\ steps < MaxSteps
    /\ \E x \in {r} : Result(Call(op, h, key, val, Pre(h, key), x), x)
    /\ UNCHANGED <<thr, written, touched>>

Set(h, k, v) == Becomes("set", h, k, v, setitem(World, h, k, v))

Get(h, k) == Becomes("get", h, k, None, getitem(World, h, k))

Delete(h, k) == Becomes("delete", h, k, None, delitem(World, h, k))

Flush(h) ==
    \E order \in Orders(DOMAIN st[h].inmem) :
        Becomes("flush", h, NoKey, None, flush(World, h, order))

Exit(h, exc) == Becomes("exit", h, NoKey, exc, exit(World, h, exc))

\* Chest(data, path, available_memory) bound to the handle h.
Open(h, d, explicit, avail, data) ==
    Becomes("open", h, NoKey, None,
            R(ChestInit(World, h, d, explicit, avail, data), "ok", None))

\* self.update(other, overwrite)
Update(self, other, overwrite) ==
    /\ steps < MaxSteps
    /\ \E o1 \in Orders(DOMAIN st[self].inmem), o2 \in Orders(DOMAIN st[other].inmem),
          o3 \in Orders(DOMAIN st[other].keys) :
        \E r \in {update(World, self, other, overwrite, o1, o2, o3)} :
            /\ Result([Call("update", self, NoKey,
                            IF overwrite THEN "overwrite" ELSE "keep", NoPre, r)
                         EXCEPT !.other = other], r)
            /\ UNCHANGED <<thr, written, touched>>

(***************************************************************************)
(* Spec: one program holding the store A on the directory dA, which it     *)
(* sets, gets, deletes, flushes and leaves as a scoped resource, and which *)
(* it opens again as the store B on the same directory.                    *)
(***************************************************************************)
Keys == {KX, KY}

Budgets == {0, 1, 2}

Seeds == {EmptyFn, [k \in {KX} |-> "v1"]}

Exceptions == {None, "ZeroDivisionError"}

NoWorld ==
    [st |-> [h \in Handles |-> EmptyFn],
     fs |-> [d \in Dirs |-> EmptyDir],
     ino |-> [n \in InodeIds |-> Free]]

Start(w) ==
    /\ st = w.st
    /\ fs = w.fs
    /\ ino = w.ino
    /\ last = Call("init", "A", NoKey, None, NoPre, R(w, "ok", None))
    /\ steps = 0
    /\ thr = [t \in Threads |-> Idle]
    /\ written = [k \in Keys |-> {}]
    /\ touched = [k \in AllKeys |-> 0]

Init ==
    \E explicit \in BOOLEAN, avail \in Budgets, data \in Seeds :
        Start(ChestInit(ChestInit(NoWorld, "B", "dB", FALSE, 1, EmptyFn),
                        "A", "dA", explicit, avail, data))

Next ==
    \/ \E k \in Keys, v \in Values : Set("A", k, v)
    \/ \E k \in Keys : Get("A", k)
    \/ \E k \in Keys : Delete("A", k)
    \/ Flush("A")
    \/ \E exc \in Exceptions : Exit("A", exc)
    \/ \E avail \in Budgets, data \in Seeds : Open("B", "dA", TRUE, avail, data)
    \/ \E k \in Keys : Get("B", k)
    \/ Flush("B")

Spec == Init /\ [][Next]_vars

(***************************************************************************)
(* Claims checked under Spec.                                              *)
(***************************************************************************)

\* What the lookup of __getitem__ yields for a key: its outcome and value.
Lookup(w, h, k) ==
    LET r == getitem_lookup(w, h, k) IN [out |-> r.out, ret |-> r.ret]

Resident(h) == DOMAIN st[h].inmem

AllSerializable(h) == \A k \in Resident(h) : Serializable(st[h].inmem[k])

\* C1: set(k, v) followed immediately by get(k) on the same store returns a
\* value equal to v, in whatever state the store was and whether or not the
\* shrink pass moved k to disk in between.
C1_SetGetRoundTrip ==
    [][(/\ steps' = steps + 1
        /\ last.op = "set"
        /\ last'.op = "get"
        /\ last'.h = last.h
        /\ last'.key = last.key)
       => (last'.out = "ok" /\ last'.ret = last.val)]_vars

\* C2: whenever a get or a set returns, the memory usage of the store is at
\* most its budget, or every resident value is one that cannot be serialized.
C2_Budget ==
    (last.op \in {"get", "set"} /\ last.out = "ok")
    => \/ memory_usage(World, last.h) <= st[last.h].avail
       \/ \A k \in Resident(last.h) : ~Serializable(st[last.h].inmem[k])

\* C2's case: a set returned after its shrink pass failed to write a pinned
\* value and moved the value just set to disk.
C2_Witness ==
    /\ last.op = "set"
    /\ last.out = "ok"
    /\ last.key \notin Resident(last.h)
    /\ \E k \in Resident(last.h) : ~Serializable(st[last.h].inmem[k])

\* C5: an unserializable value inserted by set stays resident and without a
\* file through every later get and set of the store (other than a set of its
\* own key), whatever the budget, and every get of its key returns it.
C5_PinnedStays ==
    [][\A k \in AllKeys :
        (/\ steps' = steps + 1
         /\ last'.h = "A"
         /\ last'.op \in {"get", "set"}
         /\ ~(last'.op = "set" /\ last'.key = k)
         /\ k \in DOMAIN st["A"].keys
         /\ k \in Resident("A")
         /\ ~Serializable(st["A"].inmem[k]))
        => /\ k \in DOMAIN st'["A"].inmem
           /\ st'["A"].inmem[k] = st["A"].inmem[k]
           /\ ~IsFile(World', st'["A"].path, KeyFilename(World', "A", k))
           /\ (last'.op = "get" /\ last'.key = k)
                => (last'.out = "ok" /\ last'.ret = st["A"].inmem[k])]_vars

\* C6: when delete(k) of a key of the index completes, k is in neither the
\* index, the memory table nor the recency tracker, and nothing exists at
\* the path the index recorded for k.
C6_DeletePost ==
    [][(/\ steps' = steps + 1
        /\ last'.op = "delete"
        /\ last'.out = "ok")
       => LET h == last'.h
              k == last'.key
          IN  /\ k \in DOMAIN st[h].keys
              /\ k \notin DOMAIN st'[h].keys
              /\ k \notin DOMAIN st'[h].inmem
              /\ k \notin DOMAIN st'[h].heap
              /\ ~PathExists(World', st[h].path, st[h].keys[k])]_vars

\* C6's case: a delete completed for a key that was both resident and on disk.
C6_Witness ==
    /\ last.op = "delete"
    /\ last.out = "ok"
    /\ last.pre.res
    /\ last.pre.disk

\* C7: get(k) and delete(k) fail with KeyError whenever k is not in the index.
C7_KeyNotFound ==
    [][(/\ steps' = steps + 1
        /\ last'.op \in {"get", "delete"}
        /\ last'.key \notin DOMAIN st[last'.h].keys)
       => last'.out = "KeyError"]_vars

\* C8: a flush of a store whose resident values are all serializable (and
\* whose directory exists) returns with the memory table empty and every key of the index in a file holding
\* the value the store returned for it before; and a store opened without
\* seed data on the directory of a store just flushed has the same keys and
\* returns the same value for each.
C8_FlushReopen ==
    [][/\ (/\ steps' = steps + 1
           /\ last'.op = "flush"
           /\ fs[st[last'.h].path].exists
           /\ AllSerializable(last'.h))
          => LET h == last'.h
                 d == st[h].path
             IN  /\ last'.out = "ok"
                 /\ DOMAIN st'[h].inmem = {}
                 /\ \A k \in DOMAIN st'[h].keys :
                      /\ IsFile(World', d, st'[h].keys[k])
                      /\ Lookup(World, h, k).out = "ok"
                         => Load(ReadFile(World', d, st'[h].keys[k]))
                              = Lookup(World, h, k).ret
       /\ (/\ steps' = steps + 1
           /\ last.op = "flush"
           /\ last.out = "ok"
           /\ last'.op = "open"
           /\ st'[last'.h].path = st[last.h].path
           /\ DOMAIN st'[last'.h].inmem = {})
          => /\ DOMAIN st'[last'.h].keys = DOMAIN st[last.h].keys
             /\ \A k \in DOMAIN st[last.h].keys :
                  Lookup(World', last'.h, k) = Lookup(World, last.h, k)]_vars

\* C9: after the exit of a scoped store, a temporary directory is gone, a
\* directory the caller gave exists and holds every entry (nothing is left in
\* memory only) and an index file from which the index of the store is read
\* back; the exception of the body is re-raised.
C9_ScopedExit ==
    last.op = "exit"
    => LET h == last.h
           d == st[h].path
       IN  /\ ~st[h].explicit => ~fs[d].exists
           /\ st[h].explicit
                => /\ fs[d].exists
                   /\ DOMAIN st[h].inmem = {}
                   /\ \A k \in DOMAIN st[h].keys : IsFile(World, d, st[h].keys[k])
                   /\ LoadKeys(World, d) = st[h].keys
           /\ last.val # None => last.out = last.val

\* C10: every key of the memory table is a key of the index.
C10_IndexAuthoritative ==
    \A h \in Handles : DOMAIN st[h].inmem \subseteq DOMAIN st[h].keys

\* C11: every key of the recency tracker (the heap) of a store is a key of
\* its memory table.
C11_RecencyResident ==
    \A h \in Handles : DOMAIN st[h].heap \subseteq DOMAIN st[h].inmem

\* C13: a get or a set (of a key the store has, for a get) that ends with
\* the recency tracker empty and the memory usage above the budget returns
\* without an error.
C13_DegradedShrink ==
    [][(/\ steps' = steps + 1
        /\ last'.op \in {"get", "set"}
        /\ last'.op = "get" => last'.key \in DOMAIN st[last'.h].keys
        /\ DOMAIN st'[last'.h].heap = {}
        /\ memory_usage(World', last'.h) > st'[last'.h].avail)
       => last'.out = "ok"]_vars

\* C14: a flush of a store (whose directory exists) that holds a resident
\* value that cannot be serialized fails with the TypeError of the codec,
\* leaves every such value resident and without a file, and leaves every
\* other resident key out of memory and in its file.
C14_BestEffortFlush ==
    [][(/\ steps' = steps + 1
        /\ last'.op = "flush"
        /\ fs[st[last'.h].path].exists
        /\ ~AllSerializable(last'.h))
       => LET h == last'.h
              d == st[h].path
          IN  /\ last'.out = "TypeError"
              /\ \A k \in Resident(h) :
                   IF Serializable(st[h].inmem[k])
                   THEN /\ k \notin DOMAIN st'[h].inmem
                        /\ IsFile(World', d, KeyFilename(World', h, k))
                   ELSE /\ k \in DOMAIN st'[h].inmem
                        /\ st'[h].inmem[k] = st[h].inmem[k]
                        /\ ~IsFile(World', d, KeyFilename(World', h, k))]_vars

\* C18: for every key of the index of a store, a file at the path of the
\* key holds the value the store has for the key (the one last set, when the
\* key is resident), and the file exists when the key is not resident.
C18_NoStaleFile ==
    \A h \in Handles :
        \A k \in DOMAIN st[h].keys :
            LET d == st[h].path
                fn == KeyFilename(World, h, k)
            IN  IF k \in DOMAIN st[h].inmem
                THEN IsFile(World, d, fn) =>
                        ReadFile(World, d, fn) = Dump(st[h].inmem[k])
                ELSE IsFile(World, d, fn)

\* C20: a delete of a key that is not in the index of the store fails with
\* KeyError and leaves the memory table, the recency tracker, the index and
\* every file as they were before the call.
C20_FailedDeleteNoEffect ==
    [][(/\ steps' = steps + 1
        /\ last'.op = "delete"
        /\ last'.key \notin DOMAIN st[last'.h].keys)
       => /\ last'.out = "KeyError"
          /\ st' = st
          /\ fs' = fs
          /\ ino' = ino]_vars

(***************************************************************************)
(* SpecLRU: the store A under a budget that holds two of the three keys    *)
(* of LruKeys, which the program sets and gets; touched records the call   *)
(* that last got or set every key.                                         *)
(***************************************************************************)
LruKeys == {KX, KY, K1}

LruBudgets == {2, 3}

LruValues == {v \in Values : Serializable(v)}

\* A get or a set of key by the program: the call, and the note of it.
Touches(op, h, key, val, r) ==
    /\ steps < MaxSteps
    /\ \E x \in {r} : Result(Call(op, h, key, val, Pre(h, key), x), x)
    /\ touched' = [touched EXCEPT ![key] = steps + 1]
    /\ UNCHANGED <<thr, written>>

InitLRU ==
    \E avail \in LruBudgets :
        Start(ChestInit(ChestInit(NoWorld, "B", "dB", FALSE, 1, EmptyFn),
                        "A", "dA", FALSE, avail, EmptyFn))

NextLRU ==
    \/ \E k \in LruKeys, v \in LruValues :
          Touches("set", "A", k, v, setitem(World, "A", k, v))
    \/ \E k \in LruKeys : Touches("get", "A", k, None, getitem(World, "A", k))

SpecLRU == InitLRU /\ [][NextLRU]_vars

\* C12: a get or a set of k that returns leaves k, when it is still
\* resident, with the newest entry of the recency tracker; and the keys a
\* get or a set evicts were all last touched before every tracked key it
\* leaves resident.
C12_LeastRecentlyUsed ==
    [][(/\ steps' = steps + 1
        /\ last'.op \in {"get", "set"}
        /\ last'.out = "ok")
       => LET h == last'.h
              k == last'.key
              tracked == (DOMAIN st[h].inmem \cap DOMAIN st[h].heap) \cup {k}
              evicted == tracked \ DOMAIN st'[h].inmem
              kept == tracked \cap DOMAIN st'[h].inmem
          IN  /\ k \in DOMAIN st'[h].inmem
                   => /\ k \in DOMAIN st'[h].heap
                      /\ \A j \in DOMAIN st'[h].heap :
                           st'[h].heap[j] <= st'[h].heap[k]
              /\ \A j \in evicted, i \in kept : touched'[j] < touched'[i]]_vars

(***************************************************************************)
(* SpecMerge: two stores A and B on their own directories, which the       *)
(* program fills with serializable values, merges (A.update(B)) and reads. *)
(***************************************************************************)
MergeValues == {v \in Values : Serializable(v)}

MergeBudgets == {1, 2}

InitMerge ==
    \E a \in MergeBudgets, b \in MergeBudgets :
        Start(ChestInit(ChestInit(NoWorld, "B", "dB", FALSE, b, EmptyFn),
                        "A", "dA", FALSE, a, EmptyFn))

NextMerge ==
    \/ \E h \in Handles, k \in Keys, v \in MergeValues : Set(h, k, v)
    \/ \E h \in Handles, k \in Keys : Get(h, k)
    \/ \E overwrite \in BOOLEAN : Update("A", "B", overwrite)

SpecMerge == InitMerge /\ [][NextMerge]_vars

\* What a.update(b, overwrite) leaves, from the state before it to the
\* state after it: b's value under every key of b that a did not have or
\* that was overwritten, a's own value under every other key of a, and b
\* as it was.
Merged(a, b, overwrite) ==
    LET both == DOMAIN st[a].keys \cap DOMAIN st[b].keys
        taken == IF overwrite THEN DOMAIN st[b].keys ELSE DOMAIN st[b].keys \ both
    IN  /\ DOMAIN st'[a].keys = DOMAIN st[a].keys \cup DOMAIN st[b].keys
        /\ \A k \in taken :
             /\ Lookup(World', a, k).out = "ok"
             /\ Lookup(World', a, k) = Lookup(World, b, k)
        /\ \A k \in DOMAIN st[a].keys \ taken :
             Lookup(World', a, k) = Lookup(World, a, k)
        /\ DOMAIN st'[b].keys = DOMAIN st[b].keys
        /\ \A k \in DOMAIN st[b].keys :
             Lookup(World', b, k) = Lookup(World, b, k)

\* C3: A.update(B, overwrite) returns and leaves the merge result (Merged),
\* and A[k] and B[k], read right after the merge, return the values the
\* stores hold under k.
C3_MergeResult ==
    [][/\ (steps' = steps + 1 /\ last'.op = "update")
          => /\ last'.out = "ok"
             /\ Merged(last'.h, last'.other, last'.val = "overwrite")
       /\ (/\ steps' = steps + 1
           /\ last.op = "update"
           /\ last.out = "ok"
           /\ last'.op = "get"
           /\ last'.key \in DOMAIN st[last'.h].keys)
          => /\ last'.out = "ok"
             /\ last'.ret = Lookup(World, last'.h, last'.key).ret]_vars

(***************************************************************************)
(* SpecIsolate: the stores A and B on their own directories, B holding the *)
(* key x; the program merges B into A and goes on setting, getting,        *)
(* deleting and flushing on both.                                          *)
(***************************************************************************)
IsolateSteps == 3

InitIsolate ==
    \E a \in MergeBudgets, b \in MergeBudgets, v \in MergeValues :
        \E w0 \in {ChestInit(ChestInit(NoWorld, "B", "dB", FALSE, b, EmptyFn),
                              "A", "dA", FALSE, a, EmptyFn)} :
        \E w1 \in {setitem(w0, "B", KX, v).w} :
            Start(w1)

NextIsolate ==
    \/ steps < IsolateSteps /\ \E overwrite \in BOOLEAN : Update("A", "B", overwrite)
    \/ steps < IsolateSteps /\ \E h \in Handles, k \in Keys, v \in MergeValues : Set(h, k, v)
    \/ steps < IsolateSteps /\ \E h \in Handles, k \in Keys : Get(h, k)
    \/ steps < IsolateSteps /\ \E h \in Handles, k \in Keys : Delete(h, k)
    \/ steps < IsolateSteps /\ \E h \in Handles : Flush(h)

SpecIsolate == InitIsolate /\ [][NextIsolate]_vars

\* What self[k] does in the world w: the exception that leaves it and the
\* value it returns.
Returns(w, h, k) == LET r == getitem(w, h, k) IN [out |-> r.out, ret |-> r.ret]

Other(h) == CHOOSE o \in Handles : o # h

\* C16: a set, a delete, a get (with its evictions) or a flush on one of
\* the two stores leaves what the other store returns for every key as it
\* was, before and after the stores were merged.
C16_MergeIsolation ==
    [][(/\ steps' = steps + 1
        /\ last'.op \in {"set", "delete", "get", "flush"})
       => \A k \in Keys :
            Returns(World', Other(last'.h), k) = Returns(World, Other(last'.h), k)]_vars

\* C16's case: A set a key whose file was the hard link of B's file to a
\* value other than B's and wrote it to its own file, and B still returns
\* its own value.
C16_Witness ==
    /\ last.op = "set"
    /\ last.h = "A"
    /\ last.out = "ok"
    /\ last.pre.shared
    /\ IsFile(World, st["A"].path, KeyFilename(World, "A", last.key))
    /\ Returns(World, "B", last.key).out = "ok"
    /\ Returns(World, "B", last.key).ret # last.val

(***************************************************************************)
(* SpecSelf: the store A, which the program sets, gets and merges into     *)
(* itself (A.update(A)).                                                   *)
(***************************************************************************)
NextSelf ==
    \/ \E k \in Keys, v \in MergeValues : Set("A", k, v)
    \/ \E k \in Keys : Get("A", k)
    \/ \E overwrite \in BOOLEAN : Update("A", "A", overwrite)

SpecSelf == InitMerge /\ [][NextSelf]_vars

\* C17: a.update(a, overwrite) fails, for both values of overwrite, and
\* leaves the index of the store as it was and every file of its directory
\* in place with its content.
C17_SelfMergeRejected ==
    [][(/\ steps' = steps + 1
        /\ last'.op = "update"
        /\ last'.other = last'.h)
       => LET h == last'.h
              d == st[h].path
          IN  /\ last'.out # "ok"
              /\ st'[h].keys = st[h].keys
              /\ \A p \in DOMAIN fs[d].files :
                   /\ IsFile(World', d, p)
                   /\ ReadFile(World', d, p) = ReadFile(World, d, p)]_vars

(***************************************************************************)
(* SpecDisk: the store A on a directory whose device starts and stops      *)
(* answering writes with an I/O error (a full disk, a permission) between  *)
(* the calls of the program.                                               *)
(***************************************************************************)
DiskBudgets == {1, 2}

\* The device of d goes from one condition to another.
Fault(d, kind) ==
    /\ steps < MaxSteps
    /\ fs[d].fault # kind
    /\ fs' = [fs EXCEPT ![d].fault = kind]
    /\ UNCHANGED <<st, ino, last, steps, thr, written, touched>>

InitDisk ==
    \E avail \in DiskBudgets :
        Start(ChestInit(ChestInit(NoWorld, "B", "dB", FALSE, 1, EmptyFn),
                        "A", "dA", TRUE, avail, EmptyFn))

NextDisk ==
    \/ \E k \in Keys, v \in Values : Set("A", k, v)
    \/ \E k \in Keys : Get("A", k)
    \/ Flush("A")
    \/ \E kind \in Faults : Fault("dA", kind)

SpecDisk == InitDisk /\ [][NextDisk]_vars

\* C19: a get, a set or a flush whose write of a value to disk fails with
\* an I/O error (the device is faulty, the call ends with OSError, and the
\* error is not the one of a lookup or of the index file) leaves the memory
\* table, the recency tracker and the index as they were before the call,
\* and no new file in the directory.
C19_FailedWriteUndone ==
    [][(/\ steps' = steps + 1
        /\ last'.op \in {"get", "set", "flush"}
        /\ last'.out = "OSError"
        /\ fs[st[last'.h].path].fault # "none"
        /\ last'.op = "get" => Lookup(World, last'.h, last'.key).out = "ok"
        /\ last'.op = "flush" =>
               \E k \in Resident(last'.h) :
                   ~IsFile(World, st[last'.h].path, KeyFilename(World, last'.h, k)))
       => LET h == last'.h
              d == st[h].path
          IN  /\ st'[h].inmem = st[h].inmem
              /\ st'[h].heap = st[h].heap
              /\ st'[h].keys = st[h].keys
              /\ DOMAIN fs'[d].files = DOMAIN fs[d].files]_vars

(***************************************************************************)
(* SpecPaths: the store A used with keys of several types: the integer 1,  *)
(* the string '1', the string '_one' and the tuple ('one', 'two').         *)
(***************************************************************************)
PathKeys == {K1, KS1, KUOne, KOneTwo}

PathBudgets == {1, 2}

InitPaths ==
    \E avail \in PathBudgets :
        Start(ChestInit(ChestInit(NoWorld, "B", "dB", FALSE, 1, EmptyFn),
                        "A", "dA", TRUE, avail, EmptyFn))

NextPaths ==
    \/ \E k \in PathKeys, v \in MergeValues : Set("A", k, v)
    \/ \E k \in PathKeys : Get("A", k)
    \/ \E k \in PathKeys : Delete("A", k)
    \/ Flush("A")

SpecPaths == InitPaths /\ [][NextPaths]_vars

\* The path p is the path q or a directory on the way to q.
IsPrefix(p, q) == Len(p) <= Len(q) /\ SubSeq(q, 1, Len(p)) = p

\* C21: two distinct keys of the index of a store never have the same
\* recorded path, and the path of neither is a directory prefix of the
\* path of the other.
C21_OnePathPerKey ==
    \A h \in Handles :
        \A k1, k2 \in DOMAIN st[h].keys :
            k1 # k2 => ~IsPrefix(st[h].keys[k1], st[h].keys[k2])

(***************************************************************************)
(* SpecThreads: the store A, filled with the keys of Keys under a budget   *)
(* that forces eviction, and the threads of Threads which get and set      *)
(* these keys.  A call is two blocks under self.lock; a step of a thread   *)
(* is the first block, or one step of shrink inside the second block.      *)
(***************************************************************************)
ThreadBudgets == {1, 2}

\* self.lock can be taken by t: no other thread is inside a locked block.
\* The first block of a call is one step, so that only shrink spans steps.
LockFree(t) == \A u \in Threads \ {t} : thr[u].pc \notin {"while", "evict"}

InitThreads ==
    \E avail \in ThreadBudgets :
        \E w0 \in {ChestInit(ChestInit(NoWorld, "B", "dB", FALSE, 1, EmptyFn),
                              "A", "dA", FALSE, avail, EmptyFn)} :
        \E w1 \in {setitem(w0, "A", KX, "v1").w} :
        \E w2 \in {setitem(w1, "A", KY, "v2").w} :
            /\ st = w2.st
            /\ fs = w2.fs
            /\ ino = w2.ino
            /\ last = Call("init", "A", NoKey, None, NoPre, R(w2, "ok", None))
            /\ steps = 0
            /\ thr = [t \in Threads |-> Idle]
            /\ written = (KX :> {"v1"}) @@ (KY :> {"v2"})
            /\ touched = [k \in AllKeys |-> 0]

\* The call of thread t leaves with exception out ("ok": it returns ret).
Leaves(t, w, out, ret) ==
    /\ st' = w.st
    /\ fs' = w.fs
    /\ ino' = w.ino
    /\ last' = Call(thr[t].op, "A", thr[t].key, thr[t].val, thr[t].pre, R(w, out, ret))
    /\ thr' = [thr EXCEPT ![t] = Idle]

\* The call of thread t goes on from the world w at position c.
GoesOn(t, w, c) ==
    /\ st' = w.st
    /\ fs' = w.fs
    /\ ino' = w.ino
    /\ last' = last
    /\ thr' = [thr EXCEPT ![t] = c]

\* Thread t calls self[k] and runs its first locked block.
GetBegin(t, k) ==
    /\ thr[t].pc = "idle"
    /\ LockFree(t)
    /\ steps < MaxSteps
    /\ steps' = steps + 1
    /\ UNCHANGED <<written, touched>>
    /\ \E r \in {getitem_lookup(World, "A", k)} :
       LET c == [Idle EXCEPT !.pc = "shrink", !.op = "get", !.key = k,
                             !.pre = Pre("A", k), !.ret = r.ret]
       IN  IF r.out # "ok"
           THEN /\ st' = r.w.st
                /\ fs' = r.w.fs
                /\ ino' = r.w.ino
                /\ last' = Call("get", "A", k, None, Pre("A", k), r)
                /\ thr' = thr
           ELSE GoesOn(t, r.w, c)

\* Thread t calls self[k] = v and runs its first locked block.
SetBegin(t, k, v) ==
    /\ thr[t].pc = "idle"
    /\ LockFree(t)
    /\ steps < MaxSteps
    /\ steps' = steps + 1
    /\ written' = [written EXCEPT ![k] = @ \cup {v}]
    /\ UNCHANGED touched
    /\ \E r \in {setitem_store(World, "A", k, v)} :
       LET c == [Idle EXCEPT !.pc = "shrink", !.op = "set", !.key = k, !.val = v,
                             !.pre = Pre("A", k)]
       IN  IF r.out # "ok"
           THEN /\ st' = r.w.st
                /\ fs' = r.w.fs
                /\ ino' = r.w.ino
                /\ last' = Call("set", "A", k, v, Pre("A", k), r)
                /\ thr' = thr
           ELSE GoesOn(t, r.w, c)

\* Thread t takes the lock of its second block and enters shrink
\* (lines 233-235).
ShrinkEnter(t) ==
    /\ thr[t].pc = "shrink"
    /\ LockFree(t)
    /\ UNCHANGED <<steps, written, touched>>
    /\ LET mem == memory_usage(World, "A")
       IN  IF mem < st["A"].avail
           THEN Leaves(t, World, "ok", thr[t].ret)
           ELSE GoesOn(t, World, [thr[t] EXCEPT !.pc = "while", !.mem = mem])

\* The loop test of shrink and heap.popitem() (lines 237-238).
ShrinkPop(t) ==
    /\ thr[t].pc = "while"
    /\ UNCHANGED <<steps, written, touched>>
    /\ IF ~(thr[t].mem > st["A"].avail)
       THEN Leaves(t, World, "ok", thr[t].ret)
       ELSE IF DOMAIN st["A"].heap = {}
       THEN Leaves(t, World, "IndexError", None)
       ELSE LET key == HeapMin(st["A"].heap)
            IN  GoesOn(t, [World EXCEPT !.st["A"].heap = Drop(@, key)],
                       [thr[t] EXCEPT !.pc = "evict", !.victim = key])

\* The body of the loop of shrink after popitem() (lines 239-244).
ShrinkEvict(t) ==
    /\ thr[t].pc = "evict"
    /\ UNCHANGED <<steps, written, touched>>
    /\ LET key == thr[t].victim
       IN  IF key \notin DOMAIN st["A"].inmem
           THEN Leaves(t, World, "KeyError", None)
           ELSE \E r \in {move_to_disk(World, "A", key)} :
                LET data == st["A"].inmem[key]
                IN  IF r.out = "ok"
                    THEN GoesOn(t, r.w, [thr[t] EXCEPT !.pc = "while",
                                                       !.mem = @ - nbytes(data),
                                                       !.victim = NoKey])
                    ELSE IF r.out = "TypeError"
                    THEN GoesOn(t, r.w, [thr[t] EXCEPT !.pc = "while",
                                                       !.victim = NoKey])
                    ELSE Leaves(t, r.w, r.out, None)

NextThreads ==
    \/ \E t \in Threads, k \in Keys : GetBegin(t, k)
    \/ \E t \in Threads, k \in Keys, v \in Values : SetBegin(t, k, v)
    \/ \E t \in Threads : ShrinkEnter(t)
    \/ \E t \in Threads : ShrinkPop(t)
    \/ \E t \in Threads : ShrinkEvict(t)

SpecThreads == InitThreads /\ [][NextThreads]_vars

\* C4: under every interleaving of the threads' gets and sets no call
\* fails, the key set of the store stays the set it was filled with, and a
\* get returns a value that a set wrote under its key.
C4_ThreadSafe ==
    /\ DOMAIN st["A"].keys = Keys
    /\ last.op \in {"get", "set"} => last.out = "ok"
    /\ (last.op = "get" /\ last.out = "ok") => last.ret \in written[last.key]

(***************************************************************************)
(* SpecLock: the threads of SpecThreads, which also delete keys and flush  *)
(* the store.  flush holds self.lock from its first statement to its last  *)
(* and is one step; __delitem__ takes no lock, and a thread inside it may  *)
(* be overtaken after each of its statements.                              *)
(***************************************************************************)
LockSteps == 3

LockValues == {v \in Values : Serializable(v)}

\* Thread t calls del self[k] and runs "if key in self.inmem: del
\* self.inmem[key]" (lines 177-178).
DeleteBegin(t, k) ==
    /\ thr[t].pc = "idle"
    /\ steps < LockSteps
    /\ steps' = steps + 1
    /\ UNCHANGED <<written, touched>>
    /\ GoesOn(t, [World EXCEPT !.st["A"].inmem = Drop(@, k)],
              [Idle EXCEPT !.pc = "del_heap", !.op = "delete", !.key = k,
                           !.pre = Pre("A", k)])

\* "if key in self.heap: del self.heap[key]" (lines 179-180)
DeleteHeap(t) ==
    /\ thr[t].pc = "del_heap"
    /\ UNCHANGED <<steps, written, touched>>
    /\ GoesOn(t, [World EXCEPT !.st["A"].heap = Drop(@, thr[t].key)],
              [thr[t] EXCEPT !.pc = "del_file"])

\* "fn = self.key_to_filename(key); if os.path.exists(fn): os.remove(fn)"
\* (lines 182-184)
DeleteFile(t) ==
    /\ thr[t].pc = "del_file"
    /\ UNCHANGED <<steps, written, touched>>
    /\ LET d == st["A"].path
           fn == KeyFilename(World, "A", thr[t].key)
       IN  IF IsDir(World, d, fn) THEN Leaves(t, World, "OSError", None)
           ELSE GoesOn(t, IF IsFile(World, d, fn) THEN Unlink(World, d, fn) ELSE World,
                       [thr[t] EXCEPT !.pc = "del_index"])

\* "del self._keys[key]" (line 186)
DeleteIndex(t) ==
    /\ thr[t].pc = "del_index"
    /\ UNCHANGED <<steps, written, touched>>
    /\ IF thr[t].key \notin DOMAIN st["A"].keys
       THEN Leaves(t, World, "KeyError", None)
       ELSE Leaves(t, [World EXCEPT !.st["A"].keys = Drop(@, thr[t].key)], "ok", None)

\* Thread t calls self.flush(): one locked block (lines 257-260).
FlushCall(t) ==
    /\ thr[t].pc = "idle"
    /\ LockFree(t)
    /\ steps < LockSteps
    /\ steps' = steps + 1
    /\ UNCHANGED <<thr, written, touched>>
    /\ \E order \in Orders(DOMAIN st["A"].inmem) :
       \E r \in {flush(World, "A", order)} :
           /\ st' = r.w.st
           /\ fs' = r.w.fs
           /\ ino' = r.w.ino
           /\ last' = Call("flush", "A", NoKey, None, NoPre, r)

NextLock ==
    \/ steps < LockSteps /\ \E t \in Threads, k \in Keys : GetBegin(t, k)
    \/ steps < LockSteps /\ \E t \in Threads, k \in Keys, v \in LockValues : SetBegin(t, k, v)
    \/ \E t \in Threads : ShrinkEnter(t)
    \/ \E t \in Threads : ShrinkPop(t)
    \/ \E t \in Threads : ShrinkEvict(t)
    \/ \E t \in Threads, k \in Keys : DeleteBegin(t, k)
    \/ \E t \in Threads : DeleteHeap(t)
    \/ \E t \in Threads : DeleteFile(t)
    \/ \E t \in Threads : DeleteIndex(t)
    \/ \E t \in Threads : FlushCall(t)

SpecLock == InitThreads /\ [][NextLock]_vars

\* A call that fails as a call running alone can: a get, in its lookup, or
\* a delete, of a key that is not in the index.
FailsAlone ==
    /\ last'.out = "KeyError"
    /\ last'.key \notin DOMAIN st'["A"].keys
    /\ \/ last'.op = "delete"
       \/ last'.op = "get" /\ thr' = thr

\* C15: in every interleaving of the threads' gets, sets, deletes and
\* flushes, no call fails but a get or a delete of a key that is not in the
\* index; and whenever no call is in progress, every key of the memory
\* table and of the recency tracker is in the index, and every file of the
\* directory is the file of a key of the index.
C15_CoarseLocking ==
    [][/\ (last' # last /\ last'.out # "ok") => FailsAlone
       /\ (\A t \in Threads : thr'[t].pc = "idle")
          => /\ DOMAIN st'["A"].inmem \cup DOMAIN st'["A"].heap
                  \subseteq DOMAIN st'["A"].keys
             /\ \A p \in DOMAIN fs'[st'["A"].path].files :
                  \E k \in DOMAIN st'["A"].keys : st'["A"].keys[k] = p]_vars
====
